---- MODULE Spec2Model ----
(***************************************************************************)
(* A model of the interview-assessment quiz tool (src/assessment.py) and   *)
(* of the sales dashboard (src/dashboard.py).                              *)
(*                                                                         *)
(* Texts are sequences of one-character tokens.  The tokens that the code  *)
(* distinguishes are: the option letters "A".."D", the separators "." and  *)
(* "dun" (the ideographic comma), the blank " ", the decimal digits, the   *)
(* ASCII brackets "(" ")", the full-width brackets "fl" "fr", the          *)
(* character "fen" (the word for points) and "x" (any other character).    *)
(***************************************************************************)
EXTENDS Integers, Sequences, FiniteSets, TLC

VARIABLES
    \* parse_questions_from_doc: the paragraphs read so far and the locals
    doc, questions, current_question, option_count, pstatus,
    \* the question workbook on disk and the memo of load_questions
    QUESTIONS_FILE, cache,
    \* the last call of load_questions: its argument and what it returned
    load_arg, loaded,
    \* whether python-docx is installed, and questions.doc(x)
    HAS_DOCX, source_doc,
    \* the results workbook on disk
    RESULTS_FILE,
    \* the number of saves of the question editor so far, and what wrote
    \* the question workbook last: "none", "init_db" or the bank saved
    saves, last_saved,
    \* the candidate's session: st.session_state, the values of the widgets
    \* (name, phone, one radio per question) and the page the last run drew
    session_state, widgets, shown,
    \* the administrator's session: st.session_state.confirm_clear and the
    \* message the last run left on the page
    confirm_clear, admin_notice,
    \* which run of main() came last
    last_run,
    \* the dashboard: the rows of sales_data.xlsx and what the last run of
    \* the script put on the page
    sales_data, dashboard

parseVars == <<doc, questions, current_question, option_count, pstatus>>

storeVars == <<QUESTIONS_FILE, cache>>

loadVars == <<load_arg, loaded>>

envVars == <<HAS_DOCX, source_doc>>

adminVars == <<saves, last_saved>>

candidateVars == <<session_state, widgets, shown>>

quizVars == <<candidateVars, confirm_clear, admin_notice, last_run>>

salesVars == <<sales_data, dashboard>>

vars == <<parseVars, storeVars, loadVars, envVars, RESULTS_FILE, adminVars,
          quizVars, salesVars>>

----------------------------------------------------------------------------
(* Bounds of the model *)

MaxParas == 6

\* rows in a question workbook that was not written by the program
MaxRows == 2

\* saves of the question editor
MaxSaves == 1

\* rows in the results table
MaxResults == 1

\* records in sales_data.xlsx
MaxRecords == 2

\* the number of rows the results table grows to by repeated submissions
MaxAppends == 2

----------------------------------------------------------------------------
(* Texts *)

Letters == <<"A", "B", "C", "D">>

LetterSet == {Letters[i] : i \in 1..Len(Letters)}

Digits == {"0", "1", "2", "3", "4", "5", "6", "7", "8", "9"}

DigitVal(c) ==
    CASE c = "0" -> 0 [] c = "1" -> 1 [] c = "2" -> 2 [] c = "3" -> 3
      [] c = "4" -> 4 [] c = "5" -> 5 [] c = "6" -> 6 [] c = "7" -> 7
      [] c = "8" -> 8 [] c = "9" -> 9

IsSpace(c) == c = " "

\* s[a..b], empty when a > b
Slice(s, a, b) == [i \in 1..(IF b >= a THEN b - a + 1 ELSE 0) |-> s[a + i - 1]]

\* number of blanks of s from position i on
RECURSIVE SpacesFrom(_, _)
SpacesFrom(s, i) ==
    IF i <= Len(s) /\ IsSpace(s[i]) THEN 1 + SpacesFrom(s, i + 1) ELSE 0

\* number of blanks of s from position i backwards
RECURSIVE SpacesBefore(_, _)
SpacesBefore(s, i) ==
    IF i >= 1 /\ IsSpace(s[i]) THEN 1 + SpacesBefore(s, i - 1) ELSE 0

\* str.strip()
strip(s) ==
    LET a == SpacesFrom(s, 1)
    IN  IF a = Len(s) THEN <<>>
        ELSE Slice(s, a + 1, Len(s) - SpacesBefore(s, Len(s)))

\* int() of a string of decimal digits
RECURSIVE int(_)
int(s) ==
    IF s = <<>> THEN 0
    ELSE 10 * int(Slice(s, 1, Len(s) - 1)) + DigitVal(s[Len(s)])

AllDigits(s) == s # <<>> /\ \A i \in 1..Len(s) : s[i] \in Digits

AllSpaces(s) == \A i \in 1..Len(s) : IsSpace(s[i])

\* text.startswith(('A.', 'B.', 'C.', 'D.', 'A、', 'B、', 'C、', 'D、'))
StartsWithOptionPrefix(text) ==
    /\ Len(text) >= 2
    /\ text[1] \in LetterSet
    /\ text[2] \in {".", "dun"}

----------------------------------------------------------------------------
(* The option pattern                                                      *)
(*   ^([A-D])[\.、]\s*(.+?)(?:（(\d+)分）|\((\d+)分\)|（(\d+)）|\((\d+)\))?\s*$ *)

\* the four bracket notations, in the order of the alternation: the opening
\* bracket, whether "fen" follows the digits, the closing bracket
Notations ==
    << [open |-> "fl", fen |-> TRUE,  close |-> "fr"],
       [open |-> "(",  fen |-> TRUE,  close |-> ")"],
       [open |-> "fl", fen |-> FALSE, close |-> "fr"],
       [open |-> "(",  fen |-> FALSE, close |-> ")"] >>

\* the digits d for which r is <open> d [fen] <close> \s*, or <<>>
SuffixDigits(r, n) ==
    LET body == Slice(r, 1, Len(r) - SpacesBefore(r, Len(r)))
        tail == IF n.fen THEN 2 ELSE 1
        d    == Slice(body, 2, Len(body) - tail)
    IN  IF /\ Len(body) >= tail + 2
           /\ body[1] = n.open
           /\ body[Len(body)] = n.close
           /\ (n.fen => body[Len(body) - 1] = "fen")
           /\ AllDigits(d)
        THEN d ELSE <<>>

\* (?: ... )?\s*$ on the rest r of the text: groups 3..6, or no match
SuffixMatch(r) ==
    CHOOSE m \in
      { IF hit # {}
        THEN [ok |-> TRUE,
              groups |-> [i \in 1..Len(Notations) |->
                            IF i = CHOOSE j \in hit : \A k \in hit : j <= k
                            THEN SuffixDigits(r, Notations[i]) ELSE <<>>]]
        ELSE [ok |-> AllSpaces(r),
              groups |-> [i \in 1..Len(Notations) |-> <<>>]] :
        hit \in {{i \in 1..Len(Notations) :
                    SuffixDigits(r, Notations[i]) # <<>>}} } : TRUE

\* the ways to match the pattern: <<sp, k>> when \s* takes sp blanks and
\* group 2 takes k characters
MatchWays(text) ==
    {w \in (0..SpacesFrom(text, 3)) \X (1..Len(text)) :
        /\ 2 + w[1] + w[2] <= Len(text)
        /\ SuffixMatch(Slice(text, 3 + w[1] + w[2], Len(text))).ok}

\* re.match of the option pattern: \s* is greedy, (.+?) is lazy, and the
\* first way to match in that order is the match.  An absent group is <<>>.
OptionMatch(text) ==
    IF ~StartsWithOptionPrefix(text) THEN [matched |-> FALSE, groups |-> <<>>]
    ELSE CHOOSE m \in
      { IF ways = {} THEN [matched |-> FALSE, groups |-> <<>>]
        ELSE CHOOSE g \in
          { [matched |-> TRUE,
             groups  |-> << <<text[1]>>,
                            Slice(text, 3 + best[1], 2 + best[1] + best[2]) >>
                         \o SuffixMatch(Slice(text, 3 + best[1] + best[2],
                                              Len(text))).groups] :
            best \in {CHOOSE w \in ways :
                        \A v \in ways : \/ w[1] > v[1]
                                        \/ (w[1] = v[1] /\ w[2] <= v[2])} }
          : TRUE :
        ways \in {MatchWays(text)} } : TRUE

\* for i in range(3, 8): if match.group(i): score = int(match.group(i)); break
\* match.group(i) raises IndexError for a group the pattern does not have
RangeStart == 3

RangeStop == 8

RECURSIVE ExtractScore(_, _)
ExtractScore(groups, i) ==
    IF i >= RangeStop THEN [raised |-> FALSE, score |-> 0]
    ELSE IF i > Len(groups) THEN [raised |-> TRUE, score |-> 0]
    ELSE IF groups[i] # <<>> THEN [raised |-> FALSE, score |-> int(groups[i])]
    ELSE ExtractScore(groups, i + 1)

----------------------------------------------------------------------------
(* parse_questions_from_doc *)

BANK_NAMES == <<"bank1", "bank2", "bank3">>

\* len(text) > 10
QuestionMinLen == 10

\* option_count >= 4
MinOptions == 4

IsHeading1(style) == style = "Heading 1"

IsHeading2(style) == style = "Heading 2"

OptionKey(letter) ==
    CASE letter = "A" -> "Option_A" [] letter = "B" -> "Option_B"
      [] letter = "C" -> "Option_C" [] letter = "D" -> "Option_D"

ScoreKey(letter) ==
    CASE letter = "A" -> "Score_A" [] letter = "B" -> "Score_B"
      [] letter = "C" -> "Score_C" [] letter = "D" -> "Score_D"

\* the dictionary a new question starts as
NewQuestion(id, bank_name, text) ==
    [ID |-> id, Bank |-> bank_name, Question |-> text,
     Option_A |-> <<>>, Score_A |-> 0, Option_B |-> <<>>, Score_B |-> 0,
     Option_C |-> <<>>, Score_C |-> 0, Option_D |-> <<>>, Score_D |-> 0]

\* the first branch of the loop: a level-1 heading, or a long text that
\* does not start with an option prefix
IsQuestionPara(style_name, text) ==
    \/ IsHeading1(style_name)
    \/ (Len(text) > QuestionMinLen /\ ~StartsWithOptionPrefix(text))

\* the elif branch: a level-2 heading, or a text with an option prefix
IsOptionPara(style_name, text) ==
    /\ ~IsQuestionPara(style_name, text)
    /\ (IsHeading2(style_name) \/ StartsWithOptionPrefix(text))

\* if current_question and option_count >= 4: questions.append(...)
Flush(qs, cur, count) ==
    IF cur # <<>> /\ count >= MinOptions THEN qs \o cur ELSE qs

\* The locals of the function: questions, current_question (<<>> is None,
\* <<q>> a dictionary), option_count, and whether an exception was raised.
ParseStart ==
    [questions |-> <<>>, current_question |-> <<>>, option_count |-> 0,
     raised |-> FALSE]

\* a new question starts: the one before is flushed
StartQuestion(st, text, bank_name) ==
    CHOOSE next \in
      { [st EXCEPT
           !.questions = qs,
           !.current_question = <<NewQuestion(Len(qs) + 1, bank_name, text)>>,
           !.option_count = 0] :
        qs \in {Flush(st.questions, st.current_question, st.option_count)} }
      : TRUE

\* the option of the match m is written into the current question with the
\* score sc, unless the score loop raised
StoreOption(st, m, sc) ==
    IF sc.raised THEN [st EXCEPT !.raised = TRUE]
    ELSE IF m.groups[1][1] \in LetterSet
    THEN [st EXCEPT
            !.current_question =
                <<[st.current_question[1] EXCEPT
                     ![OptionKey(m.groups[1][1])] = strip(m.groups[2]),
                     ![ScoreKey(m.groups[1][1])] = sc.score]>>,
            !.option_count = st.option_count + 1]
    ELSE st

\* the elif branch with a current question
ReadOption(st, text) ==
    CHOOSE next \in
      { IF m.matched
        THEN StoreOption(st, m, ExtractScore(m.groups, RangeStart))
        ELSE st :
        m \in {OptionMatch(text)} } : TRUE

\* one iteration of "for para in doc.paragraphs", text the stripped text
Iteration(st, style_name, text, bank_name) ==
    IF text = <<>> THEN st
    ELSE IF IsQuestionPara(style_name, text)
    THEN StartQuestion(st, text, bank_name)
    ELSE IF IsOptionPara(style_name, text) /\ st.current_question # <<>>
    THEN ReadOption(st, text)
    ELSE st

LoopBody(st, para, bank_name) ==
    CHOOSE next \in
      { Iteration(st, para.style, text, bank_name) :
        text \in {strip(para.text)} } : TRUE

\* the whole loop over the paragraphs i..Len(paras); an exception ends it
RECURSIVE ParseLoop(_, _, _, _)
ParseLoop(st, paras, i, bank_name) ==
    IF i > Len(paras) \/ st.raised THEN st
    ELSE CHOOSE end \in {ParseLoop(next, paras, i + 1, bank_name) :
                            next \in {LoopBody(st, paras[i], bank_name)}} : TRUE

\* the value returned: [] without the docx library or without the file,
\* [] when an exception is caught, otherwise the flushed list
parse_questions_from_doc(has_docx, doc_exists, paras, bank_name) ==
    IF ~has_docx \/ ~doc_exists THEN <<>>
    ELSE CHOOSE returned \in
            {IF st.raised THEN <<>>
             ELSE Flush(st.questions, st.current_question, st.option_count) :
                st \in {ParseLoop(ParseStart, paras, 1, bank_name)}} : TRUE

----------------------------------------------------------------------------
(* The paragraphs of the documents that are parsed *)

Xs(n) == [i \in 1..n |-> "x"]

\* a level-1 heading, " xx"
ParaH1 == [style |-> "Heading 1", text |-> <<" ", "x", "x">>]

\* a body paragraph of 11 characters
ParaLong == [style |-> "Normal", text |-> Xs(QuestionMinLen + 1)]

\* "A. xxx（5分）"
OptA == [style |-> "Normal",
         text |-> <<"A", ".", " ", "x", "x", "x", "fl", "5", "fen", "fr">>]

\* "B. xxx(3分)"
OptB == [style |-> "Normal",
         text |-> <<"B", ".", " ", "x", "x", "x", "(", "3", "fen", ")">>]

\* "C. xxx"
OptC == [style |-> "Normal", text |-> <<"C", ".", " ", "x", "x", "x">>]

\* "D. xxx（1）", as a level-2 heading
OptD == [style |-> "Heading 2",
         text |-> <<"D", ".", " ", "x", "x", "x", "fl", "1", "fr">>]

ParaSet == {ParaH1, ParaLong, OptA, OptB, OptC, OptD}

----------------------------------------------------------------------------
(* Data frames and the question workbook                                   *)
(*                                                                         *)
(* A data frame is its set of column names and its rows, each row a        *)
(* function on the columns.  The legacy headers are written in pinyin:     *)
(* timu (question), xuanxiang1..4 (options), fenzhi1..4 (scores).          *)

CanonicalColumns ==
    {"ID", "Bank", "Question", "Option_A", "Score_A", "Option_B", "Score_B",
     "Option_C", "Score_C", "Option_D", "Score_D"}

LegacyColumns ==
    {"timu", "xuanxiang1", "fenzhi1", "xuanxiang2", "fenzhi2",
     "xuanxiang3", "fenzhi3", "xuanxiang4", "fenzhi4"}

DataFrame(columns, rows) == [columns |-> columns, rows |-> rows]

\* pd.DataFrame()
EmptyFrame == DataFrame({}, <<>>)

\* df.empty
empty(df) == df.rows = <<>> \/ df.columns = {}

\* row.get(column, default)
get(row, column, default) ==
    IF column \in DOMAIN row THEN row[column] ELSE default

\* bank_name = None
NoBank == ""

OtherSheet == "other"

SheetNames == {BANK_NAMES[i] : i \in 1..Len(BANK_NAMES)} \cup {OtherSheet}

\* a sheet that is not in the workbook
NoSheet == [readable |-> FALSE, df |-> EmptyFrame]

\* pd.ExcelFile(QUESTIONS_FILE).sheet_names: raises when the file is
\* missing or cannot be opened
ExcelFile(file) ==
    IF file.exists /\ ~file.corrupt
    THEN [raised |-> FALSE, sheet_names |-> file.sheet_names]
    ELSE [raised |-> TRUE, sheet_names |-> <<>>]

InFile(file, sheet_name) ==
    \E i \in 1..Len(file.sheet_names) : file.sheet_names[i] = sheet_name

\* pd.read_excel(QUESTIONS_FILE, sheet_name=...): raises when the file
\* cannot be opened, the sheet is missing or the sheet cannot be read
read_excel(file, sheet_name) ==
    IF /\ file.exists /\ ~file.corrupt
       /\ InFile(file, sheet_name)
       /\ file.sheets[sheet_name].readable
    THEN [raised |-> FALSE, df |-> file.sheets[sheet_name].df]
    ELSE [raised |-> TRUE, df |-> EmptyFrame]

\* normalize_df numbering the rows from 0
NormalizeRowFromZero(row, idx, bank) ==
    [ID |-> idx, Bank |-> bank, Question |-> row["timu"],
     Option_A |-> get(row, "xuanxiang1", <<>>),
     Score_A |-> get(row, "fenzhi1", 0),
     Option_B |-> get(row, "xuanxiang2", <<>>),
     Score_B |-> get(row, "fenzhi2", 0),
     Option_C |-> get(row, "xuanxiang3", <<>>),
     Score_C |-> get(row, "fenzhi3", 0),
     Option_D |-> get(row, "xuanxiang4", <<>>),
     Score_D |-> get(row, "fenzhi4", 0)]

\* new_row of normalize_df for the row at index idx (from 0)
NormalizeRow(row, idx, bank) ==
    [ID |-> idx + 1, Bank |-> bank, Question |-> row["timu"],
     Option_A |-> get(row, "xuanxiang1", <<>>),
     Score_A |-> get(row, "fenzhi1", 0),
     Option_B |-> get(row, "xuanxiang2", <<>>),
     Score_B |-> get(row, "fenzhi2", 0),
     Option_C |-> get(row, "xuanxiang3", <<>>),
     Score_C |-> get(row, "fenzhi3", 0),
     Option_D |-> get(row, "xuanxiang4", <<>>),
     Score_D |-> get(row, "fenzhi4", 0)]

\* pd.DataFrame(list of dictionaries): no dictionaries, no columns
FrameOfDicts(rows) ==
    IF rows = <<>> THEN EmptyFrame ELSE DataFrame(DOMAIN rows[1], rows)

normalize_df(df, bank) ==
    IF "timu" \in df.columns
    THEN FrameOfDicts([i \in 1..Len(df.rows) |->
                          NormalizeRow(df.rows[i], i - 1, bank)])
    ELSE df

\* df[column] = value, value given per row index (from 1)
WithColumn(df, column, value(_)) ==
    DataFrame(df.columns \cup {column},
              [i \in 1..Len(df.rows) |->
                  [c \in df.columns \cup {column} |->
                      IF c = column THEN value(i) ELSE df.rows[i][c]]])

\* the frame df of a sheet with the columns ID and Bank added when missing
WithIdAndBank(df, bank) ==
    LET RowNumber(i) == i
        BankName(i) == bank
    IN  CHOOSE d2 \in
          { IF "Bank" \notin d1.columns
            THEN WithColumn(d1, "Bank", BankName) ELSE d1 :
            d1 \in {IF "ID" \notin df.columns
                    THEN WithColumn(df, "ID", RowNumber) ELSE df} } : TRUE

\* the body of "for bank in sheet_names": the frame appended for one sheet,
\* none when the read fails or the frame is empty
LoadedSheet(file, bank) ==
    CHOOSE appended \in
      { IF r.raised THEN <<>>
        ELSE CHOOSE a \in
               { IF empty(df) THEN <<>> ELSE <<WithIdAndBank(df, bank)>> :
                 df \in {normalize_df(r.df, bank)} } : TRUE :
        r \in {read_excel(file, bank)} } : TRUE

\* the loop over the sheets inside one try: the first failing read ends it
RECURSIVE AllQuestionsOneTry(_, _, _)
AllQuestionsOneTry(file, names, i) ==
    IF i > Len(names) \/ read_excel(file, names[i]).raised THEN <<>>
    ELSE LoadedSheet(file, names[i]) \o AllQuestionsOneTry(file, names, i + 1)

\* all_questions after the sheets i..Len(names)
RECURSIVE AllQuestions(_, _, _)
AllQuestions(file, names, i) ==
    IF i > Len(names) THEN <<>>
    ELSE LoadedSheet(file, names[i]) \o AllQuestions(file, names, i + 1)

\* pd.concat(frames, ignore_index=True)
RECURSIVE ConcatRows(_, _)
ConcatRows(frames, i) ==
    IF i > Len(frames) THEN <<>>
    ELSE frames[i].rows \o ConcatRows(frames, i + 1)

concat(frames) ==
    DataFrame(UNION {frames[i].columns : i \in 1..Len(frames)},
              ConcatRows(frames, 1))

\* load_questions(bank_name) without its memo: whether it raises, and the
\* frame it returns
LoadOne(file, bank_name) ==
    CHOOSE returned \in
      { IF r.raised THEN [raised |-> FALSE, df |-> EmptyFrame]
        ELSE [raised |-> FALSE, df |-> normalize_df(r.df, bank_name)] :
        r \in {read_excel(file, bank_name)} } : TRUE

LoadAll(file) ==
    CHOOSE returned \in
      { IF all_questions # <<>>
        THEN [raised |-> FALSE, df |-> concat(all_questions)]
        ELSE [raised |-> FALSE, df |-> EmptyFrame] :
        all_questions \in
          { AllQuestions(file, sheet_names, 1) :
            sheet_names \in {IF ExcelFile(file).raised THEN BANK_NAMES
                             ELSE ExcelFile(file).sheet_names} } } : TRUE

load_questions_uncached(file, bank_name) ==
    IF bank_name # NoBank THEN LoadOne(file, bank_name) ELSE LoadAll(file)

\* @st.cache_data: the value remembered for the argument, else the call
Cached(memo, file, bank_name) == bank_name \in DOMAIN memo

load_questions(memo, file, bank_name) ==
    IF Cached(memo, file, bank_name)
    THEN [raised |-> FALSE, df |-> memo[bank_name]]
    ELSE load_questions_uncached(file, bank_name)

\* the memo after the call: a call that raises remembers nothing
Remember(memo, file, bank_name) ==
    IF Cached(memo, file, bank_name) THEN memo
    ELSE CHOOSE after \in
           { IF r.raised THEN memo ELSE (bank_name :> r.df) @@ memo :
             r \in {load_questions(memo, file, bank_name)} } : TRUE

\* st.cache_data.clear()
NoMemo == <<>>

----------------------------------------------------------------------------
(* The question workbooks the program can find on disk *)

\* what a question says: its text, its option texts and their scores
Contents ==
    { [Question |-> <<"x">>,
       Option_A |-> <<"a">>, Score_A |-> 5, Option_B |-> <<"b">>, Score_B |-> 3,
       Option_C |-> <<"c">>, Score_C |-> 2, Option_D |-> <<"d">>, Score_D |-> 1],
      [Question |-> <<"y">>,
       Option_A |-> <<"a">>, Score_A |-> 1, Option_B |-> <<"b">>, Score_B |-> 0,
       Option_C |-> <<"c">>, Score_C |-> 4, Option_D |-> <<"d">>, Score_D |-> 2] }

CanonicalRow(id, bank, c) ==
    [col \in CanonicalColumns |->
        IF col = "ID" THEN id ELSE IF col = "Bank" THEN bank ELSE c[col]]

LegacyRow(c) ==
    [timu |-> c.Question,
     xuanxiang1 |-> c.Option_A, fenzhi1 |-> c.Score_A,
     xuanxiang2 |-> c.Option_B, fenzhi2 |-> c.Score_B,
     xuanxiang3 |-> c.Option_C, fenzhi3 |-> c.Score_C,
     xuanxiang4 |-> c.Option_D, fenzhi4 |-> c.Score_D]

\* the ids found in a sheet that was edited by hand
HandIds == {1, 2}

Sheet(df) == [readable |-> TRUE, df |-> df]

UnreadableSheet == [readable |-> FALSE, df |-> EmptyFrame]

\* the sheets of r rows a workbook may hold under the name bank; a sheet of
\* no rows may also be missing (present = FALSE) or unreadable
SheetsOf(bank, r) ==
    LET canon  == {[present |-> TRUE,
                    sheet |-> Sheet(DataFrame(CanonicalColumns, rows))] :
                     rows \in [1..r -> {CanonicalRow(id, bank, c) :
                                          id \in HandIds, c \in Contents}]}
        legacy == {[present |-> TRUE,
                    sheet |-> Sheet(DataFrame(LegacyColumns, rows))] :
                     rows \in [1..r -> {LegacyRow(c) : c \in Contents}]}
    IN  IF r = 0
        THEN canon \cup {[present |-> FALSE, sheet |-> NoSheet],
                         [present |-> TRUE, sheet |-> UnreadableSheet]}
        ELSE canon \cup legacy

\* the orders in which a workbook lists its sheets
SheetOrders ==
    { BANK_NAMES \o <<OtherSheet>>,
      <<OtherSheet, BANK_NAMES[3], BANK_NAMES[2], BANK_NAMES[1]>> }

RowCounts ==
    {n \in [SheetNames -> 0..MaxRows] :
        n[BANK_NAMES[1]] + n[BANK_NAMES[2]] + n[BANK_NAMES[3]] + n[OtherSheet]
            <= MaxRows}

Workbook(order, s) ==
    [exists |-> TRUE, corrupt |-> FALSE,
     sheet_names |-> SelectSeq(order, LAMBDA name : s[name].present),
     sheets |-> [name \in SheetNames |-> s[name].sheet]]

NoFile ==
    [exists |-> FALSE, corrupt |-> FALSE, sheet_names |-> <<>>,
     sheets |-> [name \in SheetNames |-> NoSheet]]

CorruptFile == [NoFile EXCEPT !.exists = TRUE, !.corrupt = TRUE]

\* the workbook on disk is any workbook of at most MaxRows rows in all,
\* or is missing, or cannot be opened
FoundOnDisk ==
    \/ \E n \in RowCounts, order \in SheetOrders :
         \E s1 \in SheetsOf(BANK_NAMES[1], n[BANK_NAMES[1]]),
            s2 \in SheetsOf(BANK_NAMES[2], n[BANK_NAMES[2]]),
            s3 \in SheetsOf(BANK_NAMES[3], n[BANK_NAMES[3]]),
            s4 \in SheetsOf(OtherSheet, n[OtherSheet]) :
              QUESTIONS_FILE =
                  Workbook(order,
                      (BANK_NAMES[1] :> s1) @@ (BANK_NAMES[2] :> s2)
                          @@ (BANK_NAMES[3] :> s3) @@ (OtherSheet :> s4))
    \/ QUESTIONS_FILE \in {NoFile, CorruptFile}

----------------------------------------------------------------------------
(* init_db and save_questions *)

\* base_questions of create_default_questions_for_bank: five questions,
\* each with the scores 5, 3, 2, 1
BaseQuestion(k) ==
    [Question |-> Xs(k + 1),
     Option_A |-> <<"a">>, Score_A |-> 5, Option_B |-> <<"b">>, Score_B |-> 3,
     Option_C |-> <<"c">>, Score_C |-> 2, Option_D |-> <<"d">>, Score_D |-> 1]

BaseCount == 5

\* for i in range(10)
DefaultCount == 10

\* the frame create_default_questions_for_bank writes
DefaultFrame(bank_name) ==
    DataFrame(CanonicalColumns,
              [j \in 1..DefaultCount |->
                  CanonicalRow(j, bank_name, BaseQuestion((j - 1) % BaseCount))])

\* the sheet init_db writes for one bank: the parsed questions, or the
\* default questions when the parse gave none
InitSheet(has_docx, source, bank_name) ==
    CHOOSE sheet \in
      { IF parsed # <<>>
        THEN Sheet(DataFrame(CanonicalColumns, parsed))
        ELSE Sheet(DefaultFrame(bank_name)) :
        parsed \in {parse_questions_from_doc(has_docx, source.exists,
                                             source.paras, bank_name)} } : TRUE

\* a workbook written with pd.ExcelWriter: the sheets of the dictionary
\* data, in the order names
Written(names, data) ==
    CHOOSE file \in
      { [exists |-> TRUE, corrupt |-> FALSE, sheet_names |-> names,
         sheets |-> [name \in SheetNames |->
                        IF \E i \in 1..Len(names) : names[i] = name
                        THEN Sheet(d[name]) ELSE NoSheet]] :
        d \in {data} } : TRUE

InBanks(name) == \E i \in 1..Len(BANK_NAMES) : BANK_NAMES[i] = name

\* QUESTIONS_FILE after init_db
init_db(file, has_docx, source) ==
    IF file.exists THEN file
    ELSE IF source.exists /\ has_docx
    THEN Written(BANK_NAMES,
                 [name \in SheetNames |->
                     IF InBanks(name)
                     THEN InitSheet(has_docx, source, name).df
                     ELSE EmptyFrame])
    ELSE Written(BANK_NAMES, [name \in SheetNames |-> DefaultFrame(name)])

\* RESULTS_FILE after init_db
init_results(results) ==
    IF results.exists THEN results ELSE [exists |-> TRUE, rows |-> <<>>]

\* existing_data of save_questions: every bank of BANK_NAMES as read, an
\* empty frame for a bank that cannot be read, and df for bank_name
ExistingData(file, df, bank_name) ==
    [name \in SheetNames |->
        IF name = bank_name THEN df
        ELSE CHOOSE frame \in
               { IF r.raised THEN EmptyFrame ELSE r.df :
                 r \in {read_excel(file, name)} } : TRUE]

\* QUESTIONS_FILE after save_questions(df, bank_name)
save_questions(file, df, bank_name) ==
    Written(IF InBanks(bank_name) THEN BANK_NAMES
            ELSE BANK_NAMES \o <<bank_name>>,
            ExistingData(file, df, bank_name))

----------------------------------------------------------------------------
(* admin_view: the question editor *)

\* a cell left blank in the editor
Blank == ""

\* no message on the page
NoNotice == "none"

BlankId == 0

RemoveAt(rows, i) ==
    [j \in 1..(Len(rows) - 1) |-> IF j < i THEN rows[j] ELSE rows[j + 1]]

SwapAt(rows, i) ==
    [j \in 1..Len(rows) |->
        IF j = i THEN rows[i + 1] ELSE IF j = i + 1 THEN rows[i] ELSE rows[j]]

\* what the administrator can make of the rows shown by st.data_editor:
\* leave them, delete every row, delete the first or the last row, add a
\* row (its ID and Bank blank), move the first row past the second, retype
\* the first ID
Edited(rows) ==
    {rows, <<>>}
    \cup {RemoveAt(rows, i) : i \in {1, Len(rows)} \cap (1..Len(rows))}
    \cup {Append(rows, CanonicalRow(BlankId, Blank, c)) : c \in Contents}
    \cup {SwapAt(rows, i) : i \in {1} \cap (1..(Len(rows) - 1))}
    \cup {[rows EXCEPT ![i].ID = id] :
            i \in {1} \cap (1..Len(rows)), id \in HandIds}

\* df_q: the frame loaded for the bank, replaced by a frame of the
\* canonical columns when it is empty
EditorFrame(df) == IF empty(df) THEN DataFrame(CanonicalColumns, <<>>) ELSE df

\* if edited_df['Bank'].isna().any(): edited_df['Bank'] = selected_bank
FillBank(rows, selected_bank) ==
    IF \E i \in 1..Len(rows) : rows[i].Bank = Blank
    THEN [i \in 1..Len(rows) |-> [rows[i] EXCEPT !.Bank = selected_bank]]
    ELSE rows

\* edited_df['ID'] left as the editor shows it
KeepIds(rows) == rows

\* edited_df['ID'] = range(1, len(edited_df) + 1)
Renumber(rows) == [i \in 1..Len(rows) |-> [rows[i] EXCEPT !.ID = i]]

\* the workbook as main() leaves it before a view runs
Booted == init_db(QUESTIONS_FILE, HAS_DOCX, source_doc)

BootedBy == IF QUESTIONS_FILE.exists THEN last_saved ELSE "init_db"

\* main() with the administrator role and no valid password: init_db only
MainLocked ==
    /\ QUESTIONS_FILE' = Booted
    /\ RESULTS_FILE' = init_results(RESULTS_FILE)
    /\ last_saved' = BootedBy
    /\ admin_notice' = NoNotice
    /\ last_run' = "view"
    /\ UNCHANGED <<parseVars, cache, loadVars, envVars, salesVars, saves>>
    /\ UNCHANGED <<candidateVars, confirm_clear>>

\* the rows the question editor of selected_bank can hold when "save" is
\* pressed
EditorRows(selected_bank) ==
    UNION { Edited(EditorFrame(load_questions(cache, file, selected_bank).df).rows) :
            file \in {Booted} }

\* admin_view with "save" pressed in the question editor of selected_bank,
\* the editor holding rows; st.rerun() then runs admin_view again, which
\* loads the bank
AdminSaveQuestions(selected_bank, rows) ==
    /\ saves < MaxSaves
    /\ \E file \in {Booted} :
         \E saved \in {save_questions(file,
                          DataFrame(CanonicalColumns,
                                    Renumber(FillBank(rows, selected_bank))),
                          selected_bank)} :
            /\ QUESTIONS_FILE' = saved
            /\ cache' = Remember(NoMemo, saved, selected_bank)
    /\ RESULTS_FILE' = init_results(RESULTS_FILE)
    /\ saves' = saves + 1
    /\ last_saved' = selected_bank
    /\ admin_notice' = NoNotice
    /\ last_run' = "view"
    /\ UNCHANGED <<parseVars, loadVars, envVars, salesVars>>
    /\ UNCHANGED <<candidateVars, confirm_clear>>

\* admin_view with "reload" pressed, and the run that st.rerun() starts
AdminReload(selected_bank) ==
    /\ \E file \in {Booted} :
          /\ cache' = Remember(NoMemo, file, selected_bank)
          /\ QUESTIONS_FILE' = file
    /\ RESULTS_FILE' = init_results(RESULTS_FILE)
    /\ last_saved' = BootedBy
    /\ admin_notice' = NoNotice
    /\ last_run' = "view"
    /\ UNCHANGED <<parseVars, loadVars, envVars, salesVars, saves>>
    /\ UNCHANGED <<candidateVars, confirm_clear>>

\* admin_view with nothing pressed: the bank selected is loaded
AdminView(selected_bank) ==
    /\ \E file \in {Booted} :
          /\ cache' = Remember(cache, file, selected_bank)
          /\ QUESTIONS_FILE' = file
    /\ RESULTS_FILE' = init_results(RESULTS_FILE)
    /\ last_saved' = BootedBy
    /\ admin_notice' = NoNotice
    /\ last_run' = "view"
    /\ UNCHANGED <<parseVars, loadVars, envVars, salesVars, saves>>
    /\ UNCHANGED <<candidateVars, confirm_clear>>

----------------------------------------------------------------------------
(* The parts of the state a specification leaves alone *)

NoDoc == [exists |-> FALSE, paras |-> <<>>]

NoResults == [exists |-> FALSE, rows |-> <<>>]

LoadIdle ==
    /\ load_arg = "none"
    /\ loaded = [raised |-> FALSE, df |-> EmptyFrame]

StoreIdle ==
    /\ HAS_DOCX = FALSE
    /\ source_doc = NoDoc
    /\ RESULTS_FILE = NoResults
    /\ saves = 0
    /\ last_saved = "none"

\* nobody has opened the application
NoSession ==
    [selected_bank_seed |-> "unset", shuffled |-> FALSE,
     shuffled_questions |-> <<>>, current_bank |-> "unset"]

NoWidgets == [candidate_name |-> <<>>, candidate_phone |-> <<>>, q |-> <<>>]

NoPage == [kind |-> "none", bank |-> "unset", rows |-> <<>>, notice |-> NoNotice]

QuizIdle ==
    /\ session_state = NoSession
    /\ widgets = NoWidgets
    /\ shown = NoPage
    /\ confirm_clear = FALSE
    /\ admin_notice = NoNotice
    /\ last_run = "none"

\* the dashboard was not opened
Closed ==
    [open |-> FALSE, selected_departments |-> {}, filtered_df |-> <<>>,
     total_sales |-> 0, total_orders |-> 0, department_sales |-> <<>>]

SalesIdle ==
    /\ sales_data = <<>>
    /\ dashboard = Closed

ParseIdle ==
    /\ doc = <<>>
    /\ questions = <<>>
    /\ current_question = <<>>
    /\ option_count = 0
    /\ pstatus = "idle"

----------------------------------------------------------------------------
(* The results workbook *)

\* the texts pd.read_excel takes for a missing value (its default na_values,
\* keep_default_na=True): "NA", of which "N/A", "NULL", "None", "nan", ...
\* are further cases
NaStrings == {<<"N", "A">>}

\* a missing value (NaN) in a column of texts
MissingText == <<"nan">>

\* a text cell of the workbook as pd.read_excel returns it
FromCell(v) == IF v \in NaStrings THEN MissingText ELSE v

\* a row of the results sheet as pd.read_excel returns it
ReadResult(row) ==
    [row EXCEPT !.Name = FromCell(@), !.Phone = FromCell(@)]

\* load_results: the rows of the results table as pd.read_excel returns them
load_results(results) ==
    IF results.exists
    THEN [i \in 1..Len(results.rows) |-> ReadResult(results.rows[i])]
    ELSE <<>>

\* RESULTS_FILE after df.to_excel(RESULTS_FILE, index=False)
ResultsWritten(rows) == [exists |-> TRUE, rows |-> rows]

\* RESULTS_FILE after save_result(new_row)
save_result(results, new_row) ==
    ResultsWritten(Append(load_results(results), new_row))

----------------------------------------------------------------------------
(* candidate_view *)

\* available_banks
available_banks(file) ==
    IF ExcelFile(file).raised THEN BANK_NAMES ELSE ExcelFile(file).sheet_names

\* the values random.choice can give selected_bank_seed
SeedChoices(file) ==
    IF available_banks(file) # <<>>
    THEN {available_banks(file)[i] : i \in 1..Len(available_banks(file))}
    ELSE {BANK_NAMES[1]}

\* the frames questions_list.sample(frac=1).reset_index(drop=True) can give
sample(rows) ==
    {[i \in 1..Len(rows) |-> rows[p[i]]] :
        p \in {f \in [1..Len(rows) -> 1..Len(rows)] :
                 \A i, j \in 1..Len(rows) : f[i] = f[j] => i = j}}

\* the radios of a page of n questions as first drawn: index 0, "A"
DefaultChoices(n) == [i \in 1..n |-> Letters[1]]

\* qid of a row
qid(row) == <<get(row, "Bank", Blank), row.ID>>

\* d[key] = value on a dict d kept as the sequence of its items
SetItem(d, key, value) ==
    IF \E i \in 1..Len(d) : d[i][1] = key
    THEN [i \in 1..Len(d) |-> IF d[i][1] = key THEN <<key, value>> ELSE d[i]]
    ELSE Append(d, <<key, value>>)

\* answers after the first n rows of the page
RECURSIVE Answers(_, _, _)
Answers(rows, choices, n) ==
    IF n = 0 THEN <<>>
    ELSE CHOOSE answers \in
           { SetItem(d, qid(rows[n]), choices[n]) :
             d \in {Answers(rows, choices, n - 1)} } : TRUE

\* bank_scores[bank] += score, the bank entered with 0 when it is new
AddScore(d, bank, score) ==
    IF \E i \in 1..Len(d) : d[i][1] = bank
    THEN [i \in 1..Len(d) |->
            IF d[i][1] = bank THEN <<bank, d[i][2] + score>> ELSE d[i]]
    ELSE Append(d, <<bank, score>>)

\* total_score and bank_scores after the first n items of answer_list
RECURSIVE Scored(_, _, _)
Scored(rows, answer_list, n) ==
    IF n = 0 THEN [total_score |-> 0, bank_scores |-> <<>>]
    ELSE CHOOSE after \in
           { IF n <= Len(rows)
             THEN [total_score |->
                       acc.total_score + rows[n][ScoreKey(answer_list[n][2])],
                   bank_scores |->
                       AddScore(acc.bank_scores, get(rows[n], "Bank", "unknown"),
                                rows[n][ScoreKey(answer_list[n][2])])]
             ELSE acc :
             acc \in {Scored(rows, answer_list, n - 1)} } : TRUE

\* new_row for the page rows with the radios at choices
new_row(name, phone, rows, choices) ==
    CHOOSE row \in
      { [Timestamp |-> "now", Name |-> strip(name), Phone |-> strip(phone),
         Total_Score |-> scored.total_score,
         Details |-> scored.bank_scores,
         Bank |-> [i \in 1..Len(scored.bank_scores) |->
                      scored.bank_scores[i][1]]] :
        scored \in
          { Scored(rows, answer_list, Len(answer_list)) :
            answer_list \in {Answers(rows, choices, Len(rows))} } } : TRUE

\* not name or not phone
RejectedUntrimmed(name, phone) == name = <<>> \/ phone = <<>>

\* not name.strip() or not phone.strip()
Rejected(name, phone) == strip(name) = <<>> \/ strip(phone) = <<>>

\* the page with the questions and the message under the submit button
QuestionPage(selected_bank, rows, notice) ==
    [kind |-> "questions", bank |-> selected_bank, rows |-> rows,
     notice |-> notice]

\* what follows the radios in candidate_view for the page rows: the submit
\* button, pressed or not, with the results workbook writable or not
SubmitButton(w, q, selected_bank, rows, pressed, write_ok) ==
    IF ~pressed
    THEN /\ shown' = QuestionPage(selected_bank, rows, NoNotice)
         /\ RESULTS_FILE' = init_results(RESULTS_FILE)
         /\ last_run' = "view"
    ELSE /\ last_run' = "submit"
         /\ IF Rejected(w.candidate_name, w.candidate_phone)
            THEN /\ shown' = QuestionPage(selected_bank, rows, "required")
                 /\ RESULTS_FILE' = init_results(RESULTS_FILE)
            ELSE IF write_ok
            THEN /\ shown' = QuestionPage(selected_bank, rows, "submitted")
                 /\ RESULTS_FILE' =
                        save_result(init_results(RESULTS_FILE),
                                    new_row(w.candidate_name, w.candidate_phone,
                                            rows, q))
            ELSE \* to_excel raises out of save_result
                 /\ shown' = QuestionPage(selected_bank, rows, "exception")
                 /\ RESULTS_FILE' = init_results(RESULTS_FILE)

\* one run of main() with the candidate role: w the values of the widgets
\* the browser sends, pressed whether the submit button was clicked,
\* write_ok whether the results workbook can be written
candidate_view(w, pressed, write_ok) ==
    /\ last_saved' = BootedBy
    /\ UNCHANGED <<parseVars, loadVars, envVars, salesVars, saves, confirm_clear,
                   admin_notice>>
    /\ \E file \in {Booted} :
       \E selected_bank \in
            (IF session_state.selected_bank_seed = "unset"
             THEN SeedChoices(file)
             ELSE {session_state.selected_bank_seed}) :
       \E questions_list \in {load_questions(cache, file, selected_bank).df} :
         /\ QUESTIONS_FILE' = file
         /\ cache' = Remember(cache, file, selected_bank)
         /\ IF empty(questions_list)
            THEN \* st.error(...); return
                 /\ session_state' =
                        [session_state EXCEPT
                            !.selected_bank_seed = selected_bank]
                 /\ widgets' = [w EXCEPT !.q = <<>>]
                 /\ shown' = [kind |-> "error", bank |-> selected_bank,
                              rows |-> <<>>, notice |-> "bank_empty"]
                 /\ RESULTS_FILE' = init_results(RESULTS_FILE)
                 /\ last_run' = "view"
            ELSE \E shuffled \in
                      (IF \/ ~session_state.shuffled
                          \/ session_state.current_bank # selected_bank
                       THEN sample(questions_list.rows)
                       ELSE {session_state.shuffled_questions}) :
                 \E q \in {IF Len(w.q) = Len(shuffled) THEN w.q
                           ELSE DefaultChoices(Len(shuffled))} :
                   /\ session_state' =
                          [selected_bank_seed |-> selected_bank,
                           shuffled |-> TRUE,
                           shuffled_questions |-> shuffled,
                           current_bank |-> selected_bank]
                   /\ widgets' = [w EXCEPT !.q = q]
                   /\ SubmitButton(w, q, selected_bank, shuffled, pressed,
                                   write_ok)

----------------------------------------------------------------------------
(* The question store: init_db and the question editor *)

\* "C. xxx(2)"
OptC2 == [style |-> "Normal",
          text |-> <<"C", ".", " ", "x", "x", "x", "(", "2", ")">>]

GoodBlock == <<ParaH1, OptA, OptB, OptC2, OptD>>

\* the documents init_db may find: a question with four options, twice; a
\* question with two options before one with four; a question with an
\* option that has no bracket value
Docs ==
    { GoodBlock \o GoodBlock,
      <<ParaLong, OptA, OptB>> \o GoodBlock,
      <<ParaH1, OptA, OptB, OptC, OptD>> }

\* the first and the second of Contents
ContentX == CHOOSE c \in Contents : c.Score_A = 5

ContentY == CHOOSE c \in Contents : c.Score_A # 5

\* a sheet of one question
Filler(name) ==
    [present |-> TRUE,
     sheet |-> Sheet(DataFrame(CanonicalColumns,
                               <<CanonicalRow(1, name, ContentX)>>))]

Absent == [present |-> FALSE, sheet |-> NoSheet]

\* a sheet of two questions with the ids as typed by hand
HandSheet(name, ids) ==
    [present |-> TRUE,
     sheet |-> Sheet(DataFrame(CanonicalColumns,
                               <<CanonicalRow(ids[1], name, ContentX),
                                 CanonicalRow(ids[2], name, ContentY)>>))]

\* a sheet of two questions in the legacy layout
LegacySheet ==
    [present |-> TRUE,
     sheet |-> Sheet(DataFrame(LegacyColumns,
                               <<LegacyRow(ContentX), LegacyRow(ContentY)>>))]

\* the sheets somebody may have put into the workbook under that name
HandSheets(name) ==
    { HandSheet(name, <<1, 2>>), HandSheet(name, <<1, 1>>), LegacySheet,
      [present |-> TRUE, sheet |-> UnreadableSheet] }

\* a workbook in which one sheet was made by hand and the other sheets are
\* all missing or all hold one question
OneSheetEdited ==
    \E name \in {BANK_NAMES[2], OtherSheet}, missing \in BOOLEAN :
      \E s \in HandSheets(name) :
        QUESTIONS_FILE =
            Workbook(BANK_NAMES \o <<OtherSheet>>,
                     [n \in SheetNames |->
                         IF n = name THEN s
                         ELSE IF missing THEN Absent ELSE Filler(n)])

InitStore ==
    /\ ParseIdle
    /\ LoadIdle
    /\ QuizIdle
    /\ SalesIdle
    /\ cache = NoMemo
    /\ RESULTS_FILE = NoResults
    /\ saves = 0
    /\ last_saved = "none"
    /\ \/ /\ QUESTIONS_FILE = NoFile
          /\ HAS_DOCX \in BOOLEAN
          /\ source_doc \in {NoDoc} \cup {[exists |-> TRUE, paras |-> d] : d \in Docs}
       \/ /\ OneSheetEdited
          /\ HAS_DOCX = FALSE
          /\ source_doc = NoDoc

NextStore ==
    \/ MainLocked
    \/ \E i \in 1..Len(BANK_NAMES) : AdminView(BANK_NAMES[i])
    \/ \E i \in 1..Len(BANK_NAMES) : AdminReload(BANK_NAMES[i])
    \/ \E i \in 1..Len(BANK_NAMES) :
         \E rows \in EditorRows(BANK_NAMES[i]) :
            AdminSaveQuestions(BANK_NAMES[i], rows)

SpecStore == InitStore /\ [][NextStore]_vars

----------------------------------------------------------------------------
(* The application: one candidate and the administrator *)

\* what the candidate may type as name: nothing, a blank, a character
\* between blanks; and as phone: nothing, a digit
Typed == {<<>>, <<" ">>, <<" ", "x", " ">>}

TypedPhones == {<<>>, <<"1">>}

\* the page is opened or refreshed
CandidateView ==
    candidate_view(widgets, FALSE, TRUE)

\* the candidate types a name
TypeName(name) ==
    /\ shown.kind # "none"
    /\ name # widgets.candidate_name
    /\ candidate_view([widgets EXCEPT !.candidate_name = name], FALSE, TRUE)

\* the candidate types a phone number
TypePhone(phone) ==
    /\ shown.kind # "none"
    /\ phone # widgets.candidate_phone
    /\ candidate_view([widgets EXCEPT !.candidate_phone = phone], FALSE, TRUE)

\* the candidate picks the option letter of the i-th question of the page
Pick(i, letter) ==
    /\ shown.kind = "questions"
    /\ i \in 1..Len(widgets.q)
    /\ letter # widgets.q[i]
    /\ candidate_view([widgets EXCEPT !.q[i] = letter], FALSE, TRUE)

\* the candidate presses the submit button of the page
CandidateSubmit(write_ok) ==
    /\ shown.kind = "questions"
    /\ Len(load_results(RESULTS_FILE)) < MaxResults
    /\ candidate_view(widgets, TRUE, write_ok)

\* what the administrator can make of the results table in its editor:
\* delete a row, delete every row
ResultEdits(rows) ==
    {RemoveAt(rows, i) : i \in 1..Len(rows)} \cup {<<>>}

\* admin_view up to the results table: the bank selected is loaded
AdminLoads(selected_bank) ==
    /\ \E file \in {Booted} :
          /\ cache' = Remember(cache, file, selected_bank)
          /\ QUESTIONS_FILE' = file
    /\ last_saved' = BootedBy
    /\ UNCHANGED <<parseVars, loadVars, envVars, salesVars, saves, candidateVars>>

\* admin_view with the save button of the results editor pressed, the
\* editor holding edited; st.rerun() follows a write that succeeds
AdminSaveResults(selected_bank, edited, write_ok) ==
    /\ load_results(RESULTS_FILE) # <<>>
    /\ Len(edited) # Len(load_results(RESULTS_FILE))
    /\ AdminLoads(selected_bank)
    /\ last_run' = "save_results"
    /\ UNCHANGED confirm_clear
    /\ IF write_ok
       THEN /\ RESULTS_FILE' = ResultsWritten(edited)
            /\ admin_notice' = NoNotice
       ELSE /\ UNCHANGED RESULTS_FILE
            /\ admin_notice' = "save_failed"

\* a "clear all records" button that asks for no second click
ClearAtOnce(selected_bank, write_ok) ==
    /\ load_results(RESULTS_FILE) # <<>>
    /\ AdminLoads(selected_bank)
    /\ last_run' = "clear"
    /\ RESULTS_FILE' = ResultsWritten(<<>>)
    /\ confirm_clear' = FALSE
    /\ admin_notice' = NoNotice

\* admin_view with the "clear all records" button pressed; st.rerun()
\* follows a write that succeeds
AdminClearClick(selected_bank, write_ok) ==
    /\ load_results(RESULTS_FILE) # <<>>
    /\ AdminLoads(selected_bank)
    /\ last_run' = "clear"
    /\ IF ~confirm_clear
       THEN /\ confirm_clear' = TRUE
            /\ admin_notice' = "confirm"
            /\ UNCHANGED RESULTS_FILE
       ELSE IF write_ok
       THEN /\ RESULTS_FILE' = ResultsWritten(<<>>)
            /\ confirm_clear' = FALSE
            /\ admin_notice' = NoNotice
       ELSE /\ UNCHANGED <<RESULTS_FILE, confirm_clear>>
            /\ admin_notice' = "clear_failed"

\* a workbook in which the first bank is the sheet s1, the second bank
\* holds one question and the third bank is missing
QuizWorkbook(s1) ==
    Workbook(BANK_NAMES \o <<OtherSheet>>,
             [n \in SheetNames |->
                 IF n = BANK_NAMES[1] THEN s1
                 ELSE IF n = BANK_NAMES[2] THEN Filler(n) ELSE Absent])

\* the sheets of two questions the first bank may be
FirstBanks ==
    {HandSheet(BANK_NAMES[1], <<1, 2>>), HandSheet(BANK_NAMES[1], <<1, 1>>),
     LegacySheet}

InitQuiz ==
    /\ ParseIdle
    /\ LoadIdle
    /\ QuizIdle
    /\ SalesIdle
    /\ cache = NoMemo
    /\ RESULTS_FILE = NoResults
    /\ saves = 0
    /\ last_saved = "none"
    /\ HAS_DOCX = FALSE
    /\ source_doc = NoDoc
    /\ \E s1 \in FirstBanks : QUESTIONS_FILE = QuizWorkbook(s1)

\* the candidate's session while the administrator edits the banks
NextSession ==
    \/ CandidateView
    \/ \E name \in Typed : TypeName(name)
    \/ MainLocked
    \/ \E i \in 1..Len(BANK_NAMES) : AdminView(BANK_NAMES[i])
    \/ \E i \in 1..Len(BANK_NAMES) : AdminReload(BANK_NAMES[i])
    \/ \E i \in 1..Len(BANK_NAMES) :
         \E rows \in EditorRows(BANK_NAMES[i]) :
            AdminSaveQuestions(BANK_NAMES[i], rows)

SpecSession == InitQuiz /\ [][NextSession]_vars

\* submissions and the results table, the administrator leaving the bank
\* selector at its first entry
NextResults ==
    \/ CandidateView
    \/ \E name \in Typed : TypeName(name)
    \/ \E phone \in TypedPhones : TypePhone(phone)
    \/ \E i \in 1..MaxRows, letter \in LetterSet : Pick(i, letter)
    \/ \E write_ok \in BOOLEAN : CandidateSubmit(write_ok)
    \/ AdminView(BANK_NAMES[1])
    \/ \E write_ok \in BOOLEAN :
         \E edited \in ResultEdits(load_results(RESULTS_FILE)) :
            AdminSaveResults(BANK_NAMES[1], edited, write_ok)
    \/ \E write_ok \in BOOLEAN : AdminClearClick(BANK_NAMES[1], write_ok)

InitResults ==
    /\ InitQuiz
    /\ QUESTIONS_FILE.sheets[BANK_NAMES[1]].df.columns = CanonicalColumns

SpecResults == InitResults /\ [][NextResults]_vars

----------------------------------------------------------------------------
(* Repeated submissions to the results table *)

\* the names a candidate submits under
AppendNames == {<<"x">>, <<"N", "A">>}

\* the candidate presses the submit button again, the table holding rows
SubmitAgain(write_ok) ==
    /\ shown.kind = "questions"
    /\ Len(load_results(RESULTS_FILE)) < MaxAppends
    /\ candidate_view(widgets, TRUE, write_ok)

InitAppend ==
    /\ InitQuiz
    /\ QUESTIONS_FILE = QuizWorkbook(HandSheet(BANK_NAMES[1], <<1, 2>>))

NextAppend ==
    \/ CandidateView
    \/ \E name \in AppendNames : TypeName(name)
    \/ \E phone \in TypedPhones : TypePhone(phone)
    \/ \E write_ok \in BOOLEAN : SubmitAgain(write_ok)
    \/ AdminView(BANK_NAMES[1])
    \/ \E write_ok \in BOOLEAN :
         \E edited \in ResultEdits(load_results(RESULTS_FILE)) :
            AdminSaveResults(BANK_NAMES[1], edited, write_ok)
    \/ \E write_ok \in BOOLEAN : AdminClearClick(BANK_NAMES[1], write_ok)

SpecAppend == InitAppend /\ [][NextAppend]_vars

----------------------------------------------------------------------------
(* load_questions, called on any workbook *)

InitLoad ==
    /\ ParseIdle
    /\ QuizIdle
    /\ SalesIdle
    /\ StoreIdle
    /\ FoundOnDisk
    /\ cache = NoMemo
    /\ LoadIdle

\* the first call load_questions(bank_name) of a process, bank_name = NoBank
\* for all banks
CallLoadQuestions(bank_name) ==
    /\ load_arg = "none"
    /\ load_arg' = bank_name
    /\ loaded' = load_questions(cache, QUESTIONS_FILE, bank_name)
    /\ cache' = Remember(cache, QUESTIONS_FILE, bank_name)
    /\ UNCHANGED <<parseVars, QUESTIONS_FILE, envVars, salesVars, RESULTS_FILE, adminVars,
                   quizVars>>

NextLoad == \E bank_name \in SheetNames \cup {NoBank} : CallLoadQuestions(bank_name)

SpecLoad == InitLoad /\ [][NextLoad]_vars

----------------------------------------------------------------------------
(* parse_questions_from_doc, one paragraph at a time *)

InitParse ==
    /\ doc = <<>>
    /\ questions = ParseStart.questions
    /\ current_question = ParseStart.current_question
    /\ option_count = ParseStart.option_count
    /\ pstatus = "running"
    /\ QUESTIONS_FILE = NoFile
    /\ cache = NoMemo
    /\ LoadIdle
    /\ QuizIdle
    /\ SalesIdle
    /\ StoreIdle

Locals ==
    [questions |-> questions, current_question |-> current_question,
     option_count |-> option_count, raised |-> FALSE]

\* the loop reads the next paragraph of the document
ParseParagraph(para) ==
    /\ pstatus = "running"
    /\ Len(doc) < MaxParas
    /\ doc' = Append(doc, para)
    /\ UNCHANGED <<storeVars, loadVars, envVars, salesVars, RESULTS_FILE, adminVars,
                   quizVars>>
    /\ \E st \in {LoopBody(Locals, para, BANK_NAMES[1])} :
          IF st.raised
          THEN \* except Exception: st.error(...); return []
               /\ pstatus' = "raised"
               /\ questions' = <<>>
               /\ UNCHANGED <<current_question, option_count>>
          ELSE /\ questions' = st.questions
               /\ current_question' = st.current_question
               /\ option_count' = st.option_count
               /\ UNCHANGED pstatus

\* the document ends: the last question is flushed and the list returned
ParseReturn ==
    /\ pstatus = "running"
    /\ questions' = Flush(questions, current_question, option_count)
    /\ pstatus' = "returned"
    /\ UNCHANGED <<doc, current_question, option_count>>
    /\ UNCHANGED <<storeVars, loadVars, envVars, salesVars, RESULTS_FILE, adminVars,
                   quizVars>>

NextParse ==
    \/ \E para \in ParaSet : ParseParagraph(para)
    \/ ParseReturn

SpecParse == InitParse /\ [][NextParse]_vars

----------------------------------------------------------------------------
(* parse_questions_from_doc on paragraphs of every style and length *)

\* a level-2 heading of 11 characters without an option prefix
H2Long == [style |-> "Heading 2", text |-> Xs(QuestionMinLen + 1)]

\* a level-2 heading of 2 characters without an option prefix
H2Short == [style |-> "Heading 2", text |-> Xs(2)]

\* "A.xxxxxxxxx(5)", a body paragraph of 14 characters
OptLong == [style |-> "Normal",
            text |-> <<"A", ".">> \o Xs(QuestionMinLen - 1) \o <<"(", "5", ")">>]

StyledParas == {ParaH1, H2Long, H2Short, OptLong}

NextClassify ==
    \/ \E para \in StyledParas : ParseParagraph(para)
    \/ ParseReturn

SpecClassify == InitParse /\ [][NextClassify]_vars

----------------------------------------------------------------------------
(* The sales dashboard (src/dashboard.py)                                  *)
(*                                                                         *)
(* A record of sales_data.xlsx is its department, unit price and quantity; *)
(* load_data adds the column total_sales, unit price times quantity.  A    *)
(* cell of the department column may be empty: pandas reads it as NaN.     *)

\* an empty department cell
NaN == "nan"

\* the department names, in sort order
DepartmentNames == <<"d1", "d2">>

Departments == {DepartmentNames[i] : i \in 1..Len(DepartmentNames)} \cup {NaN}

UnitPrices == {1, 2}

Quantities == {1, 3}

\* load_data: every row with its total_sales
load_data(data) ==
    [i \in 1..Len(data) |->
        [department |-> data[i].department,
         unit_price |-> data[i].unit_price,
         quantity |-> data[i].quantity,
         total_sales |-> data[i].unit_price * data[i].quantity]]

\* df[department].unique(): NaN is one of the values
all_departments(df) == {df[i].department : i \in 1..Len(df)}

\* df[df[department].isin(selected)]: NaN is in a selection that holds NaN
isin(df, selected) ==
    SelectSeq(df, LAMBDA row : row.department \in selected)

\* df[total_sales].sum() over the first n rows
RECURSIVE sum(_, _)
sum(df, n) == IF n = 0 THEN 0 ELSE df[n].total_sales + sum(df, n - 1)

\* df.groupby(department)[total_sales].sum().reset_index(): one row per
\* department in sort order; rows whose department is NaN are in no group
groupby(df) ==
    LET keys == SelectSeq(DepartmentNames,
                          LAMBDA d : \E i \in 1..Len(df) : df[i].department = d)
    IN  [k \in 1..Len(keys) |->
            [department |-> keys[k],
             total_sales |->
                 sum(SelectSeq(df, LAMBDA row : row.department = keys[k]),
                     Len(SelectSeq(df, LAMBDA row : row.department = keys[k])))]]

\* one run of the script with the departments picked in the sidebar
Dashboard(picked) ==
    /\ \E df \in {load_data(sales_data)} :
         /\ picked \subseteq all_departments(df)
         /\ \E selected_departments \in
                {IF picked = {} THEN all_departments(df) ELSE picked} :
            \E filtered_df \in {isin(df, selected_departments)} :
               dashboard' =
                   [open |-> TRUE,
                    selected_departments |-> selected_departments,
                    filtered_df |-> filtered_df,
                    total_sales |-> sum(filtered_df, Len(filtered_df)),
                    total_orders |-> Len(filtered_df),
                    department_sales |-> groupby(filtered_df)]
    /\ UNCHANGED <<parseVars, storeVars, loadVars, envVars, RESULTS_FILE,
                   adminVars, quizVars, sales_data>>

\* sales_data.xlsx holds at most MaxRecords records
InitSales ==
    /\ ParseIdle
    /\ LoadIdle
    /\ StoreIdle
    /\ QuizIdle
    /\ QUESTIONS_FILE = NoFile
    /\ cache = NoMemo
    /\ dashboard = Closed
    /\ \E n \in 0..MaxRecords :
          sales_data \in [1..n -> [department : Departments,
                                   unit_price : UnitPrices,
                                   quantity : Quantities]]

NextSales == \E picked \in SUBSET Departments : Dashboard(picked)

SpecSales == InitSales /\ [][NextSales]_vars

----------------------------------------------------------------------------
(* Claims about the sales dashboard *)

\* the total_sales of the groups 1..n added up
RECURSIVE GroupsSum(_, _)
GroupsSum(groups, n) ==
    IF n = 0 THEN 0 ELSE groups[n].total_sales + GroupsSum(groups, n - 1)

\* the departments of the records, an empty cell not being a department
DepartmentsIn(df) == {df[i].department : i \in 1..Len(df)} \ {NaN}

\* unit price times quantity added up over the records of the department
RECURSIVE Revenue(_, _, _)
Revenue(df, d, n) ==
    IF n = 0 THEN 0
    ELSE (IF df[n].department = d THEN df[n].unit_price * df[n].quantity ELSE 0)
         + Revenue(df, d, n - 1)

\* C10: for every set of sales records and every selection of departments
\* (none selected meaning all), the group-by-department view has exactly one
\* group per department present in the filtered records, each group's value
\* is the sum of unit price times quantity over the department's filtered
\* records, and the group values add up to the KPI total sales.
C10_GroupsAddUpToTotal ==
    dashboard.open =>
        /\ Len(dashboard.department_sales)
               = Cardinality(DepartmentsIn(dashboard.filtered_df))
        /\ \A k \in 1..Len(dashboard.department_sales) :
              /\ dashboard.department_sales[k].department
                     \in DepartmentsIn(dashboard.filtered_df)
              /\ dashboard.department_sales[k].total_sales =
                     Revenue(dashboard.filtered_df,
                             dashboard.department_sales[k].department,
                             Len(dashboard.filtered_df))
        /\ \A k, l \in 1..Len(dashboard.department_sales) :
              dashboard.department_sales[k].department
                  = dashboard.department_sales[l].department => k = l
        /\ GroupsSum(dashboard.department_sales,
                     Len(dashboard.department_sales))
               = dashboard.total_sales

----------------------------------------------------------------------------
(* Claims about submissions and the results table *)

\* the sum, over the first n questions of the page, of the score of the
\* letter picked for the question
RECURSIVE ChosenScore(_, _, _)
ChosenScore(rows, choices, n) ==
    IF n = 0 THEN 0
    ELSE rows[n][ScoreKey(choices[n])] + ChosenScore(rows, choices, n - 1)

\* the sum of the scores of the first n banks of a breakdown
RECURSIVE BreakdownSum(_, _)
BreakdownSum(details, n) ==
    IF n = 0 THEN 0 ELSE details[n][2] + BreakdownSum(details, n - 1)

\* the last run was a submission that was saved
Accepted == last_run = "submit" /\ shown.notice = "submitted"

\* the row at the end of the results table
LastResult == load_results(RESULTS_FILE)[Len(load_results(RESULTS_FILE))]

\* C1: for every accepted submission the Total_Score that is saved is the
\* sum, over all questions of the page, of the score of the letter picked
\* for the question, and the scores of the per-bank breakdown add up to
\* Total_Score; also when two rows of the bank have the same ID.
C1_TotalIsSumOfChosen ==
    Accepted =>
        /\ LastResult.Total_Score =
               ChosenScore(shown.rows, widgets.q, Len(shown.rows))
        /\ BreakdownSum(LastResult.Details, Len(LastResult.Details)) =
               LastResult.Total_Score

\* the text is empty once the blanks around it are removed
BlankAfterTrim(text) == strip(text) = <<>>

\* the candidate left the name or the phone blank
LeftBlank(w) ==
    BlankAfterTrim(w.candidate_name) \/ BlankAfterTrim(w.candidate_phone)

\* C6: when the submit button is pressed with the name or the phone empty
\* after trimming, the page shows the validation message and the results
\* workbook stays as it was; a row is appended to the results table only
\* by a submission with both fields non-empty after trimming, and that row
\* holds the trimmed name and phone.
C6_BlankNameOrPhoneRejected ==
    [][ /\ (last_run' = "submit" /\ LeftBlank(widgets'))
            => /\ shown'.notice = "required"
               /\ RESULTS_FILE' = RESULTS_FILE
        /\ Len(load_results(RESULTS_FILE')) > Len(load_results(RESULTS_FILE))
            => /\ last_run' = "submit"
               /\ ~LeftBlank(widgets')
               /\ Len(load_results(RESULTS_FILE')) =
                      Len(load_results(RESULTS_FILE)) + 1
               /\ load_results(RESULTS_FILE')[Len(load_results(RESULTS_FILE'))].Name
                      = strip(widgets'.candidate_name)
               /\ load_results(RESULTS_FILE')[Len(load_results(RESULTS_FILE'))].Phone
                      = strip(widgets'.candidate_phone) ]_vars

\* the submit button was pressed with a name of blanks only and a phone
\* number: the validation message is shown
C6_Witness ==
    /\ last_run = "submit"
    /\ widgets.candidate_name = <<" ">>
    /\ widgets.candidate_phone # <<>>
    /\ shown.notice = "required"

\* C4 as stated: a click on "clear all records" made while confirm_clear is
\* not set only sets it and leaves the results workbook as it was; each
\* click made while it is set empties the results table and resets it.
C4_EveryConfirmedClickClears ==
    [][ last_run' = "clear" =>
          IF ~confirm_clear
          THEN /\ confirm_clear'
               /\ RESULTS_FILE' = RESULTS_FILE
          ELSE /\ load_results(RESULTS_FILE') = <<>>
               /\ ~confirm_clear' ]_vars

\* C4 as the code has it: a click made while confirm_clear is not set only
\* sets it and leaves the results workbook as it was; a click made while it
\* is set empties the results table and resets it when the workbook can be
\* written, and when the write fails leaves the table and the flag as they
\* were and shows the failure, so that the next click is again a confirmed
\* one.
C4_ConfirmedClickClearsIfWritable ==
    [][ last_run' = "clear" =>
          IF ~confirm_clear
          THEN /\ confirm_clear'
               /\ RESULTS_FILE' = RESULTS_FILE
               /\ admin_notice' = "confirm"
          ELSE \/ /\ load_results(RESULTS_FILE') = <<>>
                  /\ ~confirm_clear'
                  /\ admin_notice' = NoNotice
               \/ /\ RESULTS_FILE' = RESULTS_FILE
                  /\ confirm_clear'
                  /\ admin_notice' = "clear_failed" ]_vars

\* a confirmed click failed to write: the table still holds its row and
\* the flag is still set
C4_Witness ==
    /\ last_run = "clear"
    /\ admin_notice = "clear_failed"
    /\ confirm_clear
    /\ load_results(RESULTS_FILE) # <<>>

----------------------------------------------------------------------------
(* Claims about the candidate's session *)

\* a is a rearrangement of b
IsPermutation(a, b) ==
    /\ Len(a) = Len(b)
    /\ \E p \in [1..Len(a) -> 1..Len(a)] :
          /\ \A i, j \in 1..Len(a) : p[i] = p[j] => i = j
          /\ \A i \in 1..Len(a) : a[i] = b[p[i]]

\* C5: the bank chosen at the first run and the order shuffled from it are
\* fixed for the session: the order is a rearrangement of the rows
\* load_questions returned when it was shuffled, neither is ever changed,
\* and every later run of candidate_view, also after the administrator
\* saved the bank and cleared the cache, shows that bank in that order.
C5_SessionShowsPinnedOrder ==
    /\ [](session_state.shuffled =>
            /\ shown.kind = "questions"
            /\ shown.bank = session_state.selected_bank_seed
            /\ shown.rows = session_state.shuffled_questions)
    /\ [][ /\ session_state.selected_bank_seed # "unset"
              => session_state'.selected_bank_seed
                    = session_state.selected_bank_seed
           /\ session_state.shuffled => session_state' = session_state
           /\ (~session_state.shuffled /\ session_state'.shuffled)
              => IsPermutation(session_state'.shuffled_questions,
                               cache'[session_state'.selected_bank_seed].rows)
       ]_vars

----------------------------------------------------------------------------
(* Claims about load_questions *)

\* the rows of the sheets names[i..] that can be read, in that order
RECURSIVE ReadableRows(_, _)
ReadableRows(names, i) ==
    IF i > Len(names) THEN <<>>
    ELSE LoadOne(QUESTIONS_FILE, names[i]).df.rows \o ReadableRows(names, i + 1)

\* the sheet of that name cannot be read
Failing(name) == read_excel(QUESTIONS_FILE, name).raised

\* C7: load_questions never raises on a read failure: for a bank whose sheet
\* is missing or unreadable it returns an empty frame, and for no bank it
\* returns the rows of the readable banks in file order, a failing bank
\* adding none and changing none.
C7_LoadSwallowsReadFailures ==
    load_arg # "none" =>
        /\ ~loaded.raised
        /\ (load_arg # NoBank /\ Failing(load_arg)) => empty(loaded.df)
        /\ load_arg = NoBank =>
              loaded.df.rows =
                  ReadableRows(IF ExcelFile(QUESTIONS_FILE).raised
                               THEN BANK_NAMES
                               ELSE QUESTIONS_FILE.sheet_names, 1)

\* all banks were loaded from a workbook in which a sheet that fails comes
\* before two sheets that gave a row each
C7_Witness ==
    /\ load_arg = NoBank
    /\ Len(QUESTIONS_FILE.sheet_names) = 3
    /\ Failing(QUESTIONS_FILE.sheet_names[1])
    /\ Len(loaded.df.rows) = 2
    /\ loaded.df.rows[1].Bank # loaded.df.rows[2].Bank

\* the canonical rows crows hold the questions of the legacy rows lrows of
\* the sheet bank, in the same order
SameQuestions(lrows, crows, bank) ==
    /\ Len(crows) = Len(lrows)
    /\ \A i \in 1..Len(lrows) :
         /\ crows[i].ID = i
         /\ crows[i].Bank = bank
         /\ crows[i].Question = lrows[i].timu
         /\ crows[i].Option_A = lrows[i].xuanxiang1
         /\ crows[i].Score_A = lrows[i].fenzhi1
         /\ crows[i].Option_B = lrows[i].xuanxiang2
         /\ crows[i].Score_B = lrows[i].fenzhi2
         /\ crows[i].Option_C = lrows[i].xuanxiang3
         /\ crows[i].Score_C = lrows[i].fenzhi3
         /\ crows[i].Option_D = lrows[i].xuanxiang4
         /\ crows[i].Score_D = lrows[i].fenzhi4

IsLegacySheet(name) ==
    /\ ~Failing(name)
    /\ QUESTIONS_FILE.sheets[name].df.columns = LegacyColumns

\* the workbook with the sheet of that name replaced by a canonical sheet
WithCanonicalSheet(name, crows) ==
    [QUESTIONS_FILE EXCEPT
        !.sheets[name] = Sheet(DataFrame(CanonicalColumns, crows))]

\* C8: load_questions(bank) of a sheet in the legacy layout returns the same
\* rows (ID, Bank, Question, option texts, scores) as load_questions(bank)
\* of the sheet that holds the same questions in the same order in the
\* canonical layout, with ids 1..N and the bank's name.
C8_LegacyLoadsAsCanonical ==
    (load_arg \in SheetNames /\ IsLegacySheet(load_arg)) =>
        \A crows \in [1..Len(QUESTIONS_FILE.sheets[load_arg].df.rows) ->
                        {CanonicalRow(id, load_arg, c) :
                            id \in 1..MaxRows, c \in Contents}] :
            SameQuestions(QUESTIONS_FILE.sheets[load_arg].df.rows, crows,
                          load_arg)
            => LET other == LoadOne(WithCanonicalSheet(load_arg, crows),
                                    load_arg).df
               IN  /\ loaded.df.rows = other.rows
                   /\ (other.rows # <<>> => loaded.df.columns = other.columns)

\* a legacy sheet of two different questions was loaded
C8_Witness ==
    /\ load_arg \in SheetNames
    /\ IsLegacySheet(load_arg)
    /\ Len(loaded.df.rows) = 2
    /\ loaded.df.rows[1].Question # loaded.df.rows[2].Question

----------------------------------------------------------------------------
(* Claims about the question store *)

\* the ids of the frame are 1..N in row order
Dense(df) ==
    \A i \in 1..Len(df.rows) :
        /\ "ID" \in DOMAIN df.rows[i]
        /\ df.rows[i].ID = i

\* the program has written the workbook
StoreWritten == last_saved # "none"

\* C9 as stated: after init_db wrote the workbook, and after a save in the
\* question editor, every bank sheet that was written has the ids 1..N in
\* row order.  save_questions writes every bank of BANK_NAMES.
C9_AllSheetsDense ==
    StoreWritten =>
        \A i \in 1..Len(BANK_NAMES) :
            Dense(QUESTIONS_FILE.sheets[BANK_NAMES[i]].df)

\* C9 as the code has it: after init_db wrote the workbook every bank sheet
\* has the ids 1..N in row order, and after a save in the question editor
\* the sheet of the bank that was saved has them, whatever ids its rows had
\* before; the sheets of the other banks are written back as they were read.
C9_SavedSheetDense ==
    /\ last_saved = "init_db" =>
          \A i \in 1..Len(BANK_NAMES) :
              Dense(QUESTIONS_FILE.sheets[BANK_NAMES[i]].df)
    /\ InBanks(last_saved) =>
          /\ InFile(QUESTIONS_FILE, last_saved)
          /\ QUESTIONS_FILE.sheets[last_saved].readable
          /\ Dense(QUESTIONS_FILE.sheets[last_saved].df)

\* a bank was saved from an editor of two rows while another bank of the
\* workbook holds ids that are not 1..N
C9_Witness ==
    /\ InBanks(last_saved)
    /\ saves > 0
    /\ Len(QUESTIONS_FILE.sheets[last_saved].df.rows) = 2
    /\ \E i \in 1..Len(BANK_NAMES) :
          ~Dense(QUESTIONS_FILE.sheets[BANK_NAMES[i]].df)

----------------------------------------------------------------------------
(* Claims about parse_questions_from_doc *)

\* the point value written at the end of an option text, 0 when there is none
WrittenScore(text) ==
    LET g == OptionMatch(text).groups
        hit == {i \in 3..Len(g) : g[i] # <<>>}
    IN  IF hit = {} THEN 0 ELSE int(g[CHOOSE i \in hit : TRUE])

LastPara == doc[Len(doc)]

\* C2: every option paragraph <Letter><. or dun><text> with at most one
\* trailing bracket value is recorded with that value, or with 0 when it has
\* none, and parsing continues with the next paragraph: no document of such
\* paragraphs ends the parse with an exception, and the example question
\* with options (5 fen), (3 fen), none, (1) is returned with 5, 3, 0, 1.
C2_OptionScoreRecorded ==
    /\ pstatus # "raised"
    /\ (/\ doc # <<>>
        /\ IsOptionPara(LastPara.style, strip(LastPara.text))
        /\ current_question # <<>>)
       => current_question[1][ScoreKey(strip(LastPara.text)[1])]
              = WrittenScore(strip(LastPara.text))
    /\ (doc = <<ParaH1, OptA, OptB, OptC, OptD>> /\ pstatus = "returned")
       => /\ Len(questions) = 1
          /\ questions[1].Score_A = 5 /\ questions[1].Score_B = 3
          /\ questions[1].Score_C = 0 /\ questions[1].Score_D = 1

\* the paragraph at i starts a question block
StartsBlock(i) == IsQuestionPara(doc[i].style, strip(doc[i].text))

\* the options detected in the block that starts at i
DetectedOptions(i) ==
    {k \in (i + 1)..Len(doc) :
        /\ \A j \in (i + 1)..k : ~StartsBlock(j)
        /\ IsOptionPara(doc[k].style, strip(doc[k].text))
        /\ OptionMatch(strip(doc[k].text)).matched}

\* the question texts of the blocks with at least 4 detected options
RECURSIVE CompleteBlocks(_)
CompleteBlocks(i) ==
    IF i > Len(doc) THEN <<>>
    ELSE (IF StartsBlock(i) /\ Cardinality(DetectedOptions(i)) >= MinOptions
          THEN <<strip(doc[i].text)>> ELSE <<>>) \o CompleteBlocks(i + 1)

\* C3: when the parse of a document has ended, the list returned holds
\* exactly the question blocks with at least 4 detected options, in the
\* order of the document, the last block included.
C3_BlockIffFourOptions ==
    pstatus # "running"
        => [i \in 1..Len(questions) |-> questions[i].Question]
               = CompleteBlocks(1)

----------------------------------------------------------------------------
(* Claims about the growth of the results table *)

\* the rows of the results sheet as they are on disk
OnDisk(results) == IF results.exists THEN results.rows ELSE <<>>

\* C11: each accepted submission appends exactly one row: after save_result
\* on a table of n rows the table has n + 1 rows, its first n rows are the
\* rows it had, in the same order, and its last row is the new submission
\* (the trimmed name and phone of the form); the table loses rows only by
\* the administrator's save of the results editor or confirmed clear.
C11_SubmissionAppendsOneRow ==
    [][ /\ (last_run' = "submit" /\ shown'.notice = "submitted")
            => /\ Len(OnDisk(RESULTS_FILE')) = Len(OnDisk(RESULTS_FILE)) + 1
               /\ \A i \in 1..Len(OnDisk(RESULTS_FILE)) :
                     OnDisk(RESULTS_FILE')[i] = OnDisk(RESULTS_FILE)[i]
               /\ OnDisk(RESULTS_FILE')[Len(OnDisk(RESULTS_FILE'))].Name
                      = strip(widgets'.candidate_name)
               /\ OnDisk(RESULTS_FILE')[Len(OnDisk(RESULTS_FILE'))].Phone
                      = strip(widgets'.candidate_phone)
        /\ Len(OnDisk(RESULTS_FILE')) < Len(OnDisk(RESULTS_FILE))
            => last_run' \in {"save_results", "clear"} ]_vars

----------------------------------------------------------------------------
(* Claims about the classification of paragraphs *)

\* the paragraph read by the step
ReadPara == doc'[Len(doc')]

\* the step starts a new question
StartsQuestion ==
    /\ current_question' # <<>>
    /\ current_question'[1] =
           NewQuestion(Len(questions') + 1, BANK_NAMES[1], strip(ReadPara.text))
    /\ option_count' = 0

\* C12: every non-empty paragraph in a level-2 heading style (and not a
\* level-1 style), whatever its length and its first characters, and every
\* paragraph not in a level-1 style whose text starts with a letter A-D and
\* "." or the enumeration comma, is read as an option of the current
\* question: it starts no new question and flushes none, and when there is
\* a current question and the option pattern matches it is counted.
C12_Level2IsOption ==
    [][ (/\ doc' # doc
         /\ strip(ReadPara.text) # <<>>
         /\ ~IsHeading1(ReadPara.style)
         /\ \/ IsHeading2(ReadPara.style)
            \/ StartsWithOptionPrefix(strip(ReadPara.text)))
        => /\ questions' = questions
           /\ (current_question = <<>> \/ option_count > 0) => ~StartsQuestion
           /\ (current_question # <<>>
                  /\ OptionMatch(strip(ReadPara.text)).matched)
               => option_count' = option_count + 1 ]_vars

----------------------------------------------------------------------------
(* Claims about what a save of one bank leaves alone *)

\* the sheet of that name can be read from the workbook
Readable(file, name) == ~read_excel(file, name).raised

\* C13: save_questions(df, bank_name) replaces the sheet of that bank only:
\* every other sheet that could be read from the question workbook before
\* the save, a bank of BANK_NAMES or a sheet of another name, is in the
\* workbook after the save with the same columns and rows.
C13_SaveKeepsOtherSheets ==
    [][ saves' = saves + 1 =>
          \A name \in SheetNames \ {last_saved'} :
             Readable(Booted, name) =>
                /\ Readable(QUESTIONS_FILE', name)
                /\ read_excel(QUESTIONS_FILE', name).df
                       = read_excel(Booted, name).df ]_vars

====
